---- MODULE Spec2Model ----
(***************************************************************************)
(* A model of whatsapp_viewer.py: the transcript parser (parse_chat), the   *)
(* sender classifier (build_sender_classes), the message renderer          *)
(* (render_message_html), the page assembler (generate_html), the audio     *)
(* transcription pass (transcribe_audios) and the run (main).               *)
(*                                                                         *)
(* A Python str is a sequence of one-character strings; None is the empty  *)
(* sequence << >> and a present optional value v is << v >>.               *)
(***************************************************************************)
EXTENDS Integers, Sequences, FiniteSets, TLC

VARIABLES
    chat_lines,      \* the lines of the transcript file, in file order
    pos,             \* parse_chat: number of lines consumed by the for loop
    messages,        \* parse_chat: the list of Message records
    current,         \* parse_chat: index in messages of the open record, 0 = None
    me_name,         \* build_sender_classes: the me_name argument
    sc_pos,          \* build_sender_classes: number of messages the loop has seen
    first,           \* build_sender_classes: first
    second,          \* build_sender_classes: second
    sender_classes,  \* build_sender_classes: the dict, sender -> lane
    sc_pc,           \* build_sender_classes: "explicit", "positional" or "returned"
    msg,             \* render_message_html: the msg argument
    media_index,     \* the media index, lowercase file name -> relative path
    transcriptions,  \* the transcription map, lowercase file name -> text
    occurrences,     \* render_message_html: occurrences
    r_key,           \* render_message_html: number of index keys searched for
    r_occ,           \* render_message_html: number of occurrences emitted
    parts,           \* render_message_html: parts
    cur,             \* render_message_html: cur
    r_pc,            \* render_message_html: "scan", "emit", "wrap" or "returned"
    html,            \* render_message_html: the returned block, None before
    pc,              \* main: the statement the run is at
    chat_exists,     \* os.path.isfile(args.chat_txt)
    media_dir_exists,    \* os.path.isdir(args.media_dir)
    out_in_media_dir,    \* the output file lies in args.media_dir itself
    media_files,     \* the files under args.media_dir, in os.walk order
    sidecars,        \* the transcription files on disk, path -> content
    transcribe,      \* args.transcribe
    transcribe_limit,    \* args.transcribe_limit
    t_msg,           \* transcribe_audios: number of messages the outer loop is done with
    t_key,           \* transcribe_audios: number of keys the inner loop is done with
    count,           \* transcribe_audios: count
    transcribed,     \* transcribe_audios: transcribed
    t_log,           \* history: what was done for each counted audio, in order
    output_file,     \* the output file, None until written
    writes,          \* number of writes of the output file
    now,             \* the wall clock, in half minutes
    pages,           \* history: the pages generate_html has written
    rendered_at      \* history: the clock at each of these writes

parserVars == <<chat_lines, pos, messages, current>>

classifierVars == <<me_name, sc_pos, first, second, sender_classes, sc_pc>>

rendererVars ==
    <<msg, media_index, transcriptions, occurrences, r_key, r_occ, parts, cur, r_pc, html>>

rendererLocals == <<msg, occurrences, r_key, r_occ, parts, cur, r_pc, html>>

runVars ==
    <<pc, chat_exists, media_dir_exists, out_in_media_dir, media_files, sidecars,
      transcribe, transcribe_limit, t_msg, t_key, count, transcribed, t_log,
      output_file, writes>>

assemblerVars == <<now, pages, rendered_at>>

vars == <<parserVars, classifierVars, rendererVars, runVars, assemblerVars>>

None == << >>

Some(v) == << v >>

\* the truth value of an optional str: neither None nor ""
Truthy(o) == o # None /\ o[1] # << >>

-----------------------------------------------------------------------------
(* Characters and the str methods the program uses.                        *)

Digits == {"0", "1", "2", "3", "4", "5", "6", "7", "8", "9"}

\* \s of the re module, on the characters the model's inputs use
Whitespace == {" ", "\t", "\n"}

\* the class [APMapm] of MESSAGE_RE and SYSTEM_RE
AmPmClass == {"A", "P", "M", "a", "p", "m"}

At(s, p, c) == p >= 1 /\ p <= Len(s) /\ s[p] = c

InClass(s, p, S) == p >= 1 /\ p <= Len(s) /\ s[p] \in S

\* the element of a one-element set; The({e(x) : x \in {v}}) is e with x
\* naming the value v
The(S) == CHOOSE x \in S : TRUE

\* length of the longest run of characters of S that starts at position p
RunLen(s, p, S) ==
    IF p > Len(s) THEN 0
    ELSE CHOOSE k \in 0..(Len(s) - p + 1) :
            /\ \A i \in p..(p + k - 1) : s[i] \in S
            /\ (p + k > Len(s) \/ s[p + k] \notin S)

\* str.lstrip() and str.rstrip() for a set of characters, str.strip()
LStripSet(s, S) == SubSeq(s, RunLen(s, 1, S) + 1, Len(s))

RStripSet(s, S) ==
    SubSeq(s, 1, The({k \in 0..Len(s) :
                        /\ \A i \in (k + 1)..Len(s) : s[i] \in S
                        /\ (k = 0 \/ s[k] \notin S)}))

Strip(s) == The({RStripSet(t, Whitespace) : t \in {LStripSet(s, Whitespace)}})

\* str.lower(), character by character
LowerChar(c) ==
    CASE c = "A" -> "a" [] c = "B" -> "b" [] c = "C" -> "c" [] c = "D" -> "d"
      [] c = "E" -> "e" [] c = "F" -> "f" [] c = "G" -> "g" [] c = "H" -> "h"
      [] c = "I" -> "i" [] c = "J" -> "j" [] c = "K" -> "k" [] c = "L" -> "l"
      [] c = "M" -> "m" [] c = "N" -> "n" [] c = "O" -> "o" [] c = "P" -> "p"
      [] c = "Q" -> "q" [] c = "R" -> "r" [] c = "S" -> "s" [] c = "T" -> "t"
      [] c = "U" -> "u" [] c = "V" -> "v" [] c = "W" -> "w" [] c = "X" -> "x"
      [] c = "Y" -> "y" [] c = "Z" -> "z" [] OTHER -> c

Lower(s) == [i \in 1..Len(s) |-> LowerChar(s[i])]

\* str.find(needle, start) with positions counted from 0; -1 when absent
Find(hay, needle, start) ==
    IF \E i \in start..(Len(hay) - Len(needle)) :
           SubSeq(hay, i + 1, i + Len(needle)) = needle
    THEN CHOOSE i \in start..(Len(hay) - Len(needle)) :
            /\ SubSeq(hay, i + 1, i + Len(needle)) = needle
            /\ \A j \in start..(i - 1) : SubSeq(hay, j + 1, j + Len(needle)) # needle
    ELSE -1

\* the slice s[a:b], positions counted from 0
Slice(s, a, b) == SubSeq(s, a + 1, b)

\* str.replace(old, ""): every occurrence of old removed, left to right
RECURSIVE Remove(_, _)
Remove(s, old) ==
    The({IF i = -1 THEN s
         ELSE Slice(s, 0, i) \o Remove(Slice(s, i + Len(old), Len(s)), old)
         : i \in {Find(s, old, 0)}})

\* str.replace(old, new) for single characters
ReplaceChar(s, old, new) == [i \in 1..Len(s) |-> IF s[i] = old THEN new ELSE s[i]]

\* s.rsplit(".", 1)[-1]: what follows the last dot, or all of s without a dot
Extension(s) ==
    IF \E i \in 1..Len(s) : s[i] = "."
    THEN SubSeq(s, 1 + The({i \in 1..Len(s) :
                              s[i] = "." /\ \A j \in (i + 1)..Len(s) : s[j] # "."}),
                Len(s))
    ELSE s

\* html.escape(s) with quote=True; an entity is one element of the result
EscapeChar(c) ==
    CASE c = "&" -> "&amp;"
      [] c = "<" -> "&lt;"
      [] c = ">" -> "&gt;"
      [] c = "\"" -> "&quot;"
      [] c = "'" -> "&#x27;"
      [] OTHER -> c

escape(s) == [i \in 1..Len(s) |-> EscapeChar(s[i])]

\* str.join(sep, items) for a list of strings
RECURSIVE Join(_, _)
Join(sep, items) ==
    IF items = << >> THEN << >>
    ELSE IF Len(items) = 1 THEN items[1]
    ELSE items[1] \o sep \o Join(sep, Tail(items))

-----------------------------------------------------------------------------
(* The line classifier: MESSAGE_RE and SYSTEM_RE, matched at the start of  *)
(* the line as re.match does. A match result is a set: empty for None,     *)
(* else the one record of captured groups.                                 *)
(*   ^(\d{1,2}/\d{1,2}/\d{2,4}),?\s+(\d{1,2}:\d{2}(?:\s?[APMapm]{2})?)\s+-\s+ *)
(* is the prefix both patterns share. Each operator below matches one      *)
(* piece at a given position and yields the set of positions where the     *)
(* match continues (empty: no match).                                      *)

\* \s+-\s+ at position p: the position after it
SeparatorEnd(s, p) ==
    {d + 1 + RunLen(s, d + 1, Whitespace) :
        d \in {x \in {p + RunLen(s, p, Whitespace)} :
                  x > p /\ At(s, x, "-") /\ RunLen(s, x + 1, Whitespace) >= 1}}

\* ^(\d{1,2}/\d{1,2}/\d{2,4}) : the position of the last character of the date
MatchDate(s) ==
    {t[1] + t[2] + t[3] + 2 :
        t \in {u \in (1..2) \X (1..2) \X (2..4) :
                  /\ RunLen(s, 1, Digits) = u[1]
                  /\ At(s, u[1] + 1, "/")
                  /\ RunLen(s, u[1] + 2, Digits) = u[2]
                  /\ At(s, u[1] + u[2] + 2, "/")
                  /\ RunLen(s, u[1] + u[2] + 3, Digits) = u[3]}}

\* ,?\s+ after the date that ends at de: the position of the first time digit
AfterDate(s, de) ==
    {q + RunLen(s, q, Whitespace) :
        q \in {x \in {IF At(s, de + 1, ",") THEN de + 2 ELSE de + 1} :
                  RunLen(s, x, Whitespace) >= 1}}

\* \d{1,2}:\d{2} at t0: the position of the last minute digit
MatchTime(s, t0) ==
    {t0 + h + 2 : h \in {k \in 1..2 : /\ RunLen(s, t0, Digits) = k
                                     /\ At(s, t0 + k, ":")
                                     /\ RunLen(s, t0 + k + 1, Digits) = 2}}

\* (?:\s?[APMapm]{2})?\s+-\s+ after the minutes that end at me: the optional
\* group with its whitespace, without it, or absent, in the order the regex
\* engine tries them. <<last character of the time, start of the rest>>
TimeTail(s, me) ==
    LET a1 == IF InClass(s, me + 1, Whitespace) /\ InClass(s, me + 2, AmPmClass)
                 /\ InClass(s, me + 3, AmPmClass)
              THEN {<<me + 3, r>> : r \in SeparatorEnd(s, me + 4)} ELSE {}
        a0 == IF InClass(s, me + 1, AmPmClass) /\ InClass(s, me + 2, AmPmClass)
              THEN {<<me + 2, r>> : r \in SeparatorEnd(s, me + 3)} ELSE {}
        b0 == {<<me, r>> : r \in SeparatorEnd(s, me + 1)}
    IN  The({IF x # {} THEN x ELSE The({IF y # {} THEN y ELSE b0 : y \in {a0}})
             : x \in {a1}})

\* the captured date and time and the position where the rest starts
HeaderPrefix(s) ==
    UNION {UNION {UNION {{[date |-> SubSeq(s, 1, de), time |-> SubSeq(s, t0, tr[1]),
                           rest |-> tr[2]] : tr \in TimeTail(s, me)}
                         : me \in MatchTime(s, t0)}
                  : t0 \in AfterDate(s, de)}
           : de \in MatchDate(s)}

\* (.*?):\s+ at p: the position of the first colon, at or after p, that
\* whitespace follows
FirstColonStop(s, p) ==
    {i \in p..Len(s) :
        /\ s[i] = ":" /\ InClass(s, i + 1, Whitespace)
        /\ \A j \in p..(i - 1) : ~(s[j] = ":" /\ InClass(s, j + 1, Whitespace))}

\* MESSAGE_RE.match(line)
MESSAGE_RE(s) ==
    UNION {{[date |-> hp.date, time |-> hp.time,
             sender |-> SubSeq(s, hp.rest, i - 1),
             text |-> SubSeq(s, i + 1 + RunLen(s, i + 1, Whitespace), Len(s))]
            : i \in FirstColonStop(s, hp.rest)}
           : hp \in HeaderPrefix(s)}

\* SYSTEM_RE.match(line)
SYSTEM_RE(s) ==
    {[date |-> hp.date, time |-> hp.time, text |-> SubSeq(s, hp.rest, Len(s))]
     : hp \in HeaderPrefix(s)}

IsHeaderLine(s) == MESSAGE_RE(s) # {} \/ SYSTEM_RE(s) # {}

-----------------------------------------------------------------------------
(* parse_chat                                                              *)

Message(d, t, s, x) == [date |-> d, time |-> t, sender |-> s, text |-> x]

\* ParseLine with a fault: a non-header line always opens a record of its own
ParseLine_NoFolding(msgs, open, line) ==
    IF MESSAGE_RE(line) # {}
    THEN The({[messages |-> Append(msgs, Message(Strip(m.date), Strip(m.time),
                                                 Strip(m.sender), m.text)),
               current |-> Len(msgs) + 1] : m \in MESSAGE_RE(line)})
    ELSE IF SYSTEM_RE(line) # {}
    THEN The({[messages |-> Append(msgs, Message(Strip(g.date), Strip(g.time),
                                                 << >>, g.text)),
               current |-> Len(msgs) + 1] : g \in SYSTEM_RE(line)})
    ELSE [messages |-> Append(msgs, Message(<< >>, << >>, << >>, line)),
          current |-> Len(msgs) + 1]

\* ParseLine with a fault: a continuation line is stripped before it is appended
ParseLine_StripsContinuation(msgs, open, line) ==
    IF MESSAGE_RE(line) # {}
    THEN The({[messages |-> Append(msgs, Message(Strip(m.date), Strip(m.time),
                                                 Strip(m.sender), m.text)),
               current |-> Len(msgs) + 1] : m \in MESSAGE_RE(line)})
    ELSE IF SYSTEM_RE(line) # {}
    THEN The({[messages |-> Append(msgs, Message(Strip(g.date), Strip(g.time),
                                                 << >>, g.text)),
               current |-> Len(msgs) + 1] : g \in SYSTEM_RE(line)})
    ELSE IF open # 0
    THEN [messages |-> [msgs EXCEPT ![open].text = @ \o <<"\n">> \o Strip(line)],
          current |-> open]
    ELSE [messages |-> Append(msgs, Message(<< >>, << >>, << >>, line)),
          current |-> Len(msgs) + 1]

\* ParseLine with a fault: a continuation line goes to the first record
ParseLine_FoldsIntoFirst(msgs, open, line) ==
    IF MESSAGE_RE(line) # {}
    THEN The({[messages |-> Append(msgs, Message(Strip(m.date), Strip(m.time),
                                                 Strip(m.sender), m.text)),
               current |-> Len(msgs) + 1] : m \in MESSAGE_RE(line)})
    ELSE IF SYSTEM_RE(line) # {}
    THEN The({[messages |-> Append(msgs, Message(Strip(g.date), Strip(g.time),
                                                 << >>, g.text)),
               current |-> Len(msgs) + 1] : g \in SYSTEM_RE(line)})
    ELSE IF open # 0
    THEN [messages |-> [msgs EXCEPT ![1].text = @ \o <<"\n">> \o line],
          current |-> open]
    ELSE [messages |-> Append(msgs, Message(<< >>, << >>, << >>, line)),
          current |-> Len(msgs) + 1]

\* one iteration of the for loop of parse_chat on a line (newline removed):
\* the list and the index of the open record after it
ParseLine(msgs, open, line) ==
    IF MESSAGE_RE(line) # {}
    THEN The({[messages |-> Append(msgs, Message(Strip(m.date), Strip(m.time),
                                                 Strip(m.sender), m.text)),
               current |-> Len(msgs) + 1] : m \in MESSAGE_RE(line)})
    ELSE IF SYSTEM_RE(line) # {}
    THEN The({[messages |-> Append(msgs, Message(Strip(g.date), Strip(g.time),
                                                 << >>, g.text)),
               current |-> Len(msgs) + 1] : g \in SYSTEM_RE(line)})
    ELSE IF open # 0
    THEN [messages |-> [msgs EXCEPT ![open].text = @ \o <<"\n">> \o line],
          current |-> open]
    ELSE [messages |-> Append(msgs, Message(<< >>, << >>, << >>, line)),
          current |-> Len(msgs) + 1]

\* str.rstrip("\n") of a raw line
RStripNewline(s) == RStripSet(s, {"\n"})

\* parse_chat on a whole file: the for loop run to its end
RECURSIVE ParseFrom(_, _, _, _)
ParseFrom(raw, i, msgs, open) ==
    IF i > Len(raw) THEN msgs
    ELSE The({ParseFrom(raw, i + 1, r.messages, r.current)
              : r \in {ParseLine(msgs, open, line) : line \in {RStripNewline(raw[i])}}})

parse_chat(raw) == ParseFrom(raw, 1, << >>, 0)

-----------------------------------------------------------------------------
(* build_sender_classes and the lane render_message_html reads from it.    *)

\* dict.get(sender, "received") of render_message_html
Lane(classes, sender) ==
    IF sender \in DOMAIN classes THEN classes[sender] ELSE "received"

\* classes[s] = lane
Assign(classes, s, lane) == (s :> lane) @@ classes

\* ExplicitStep with a fault: the name is compared without regard to case
ExplicitStep_IgnoresCase(classes, s, me) ==
    IF s = << >> THEN classes
    ELSE IF Lower(s) = Lower(me) THEN Assign(classes, s, "sent")
    ELSE IF s \notin DOMAIN classes THEN Assign(classes, s, "received")
    ELSE classes

\* the body of the loop of the explicit mode, for a message of sender s
ExplicitStep(classes, s, me) ==
    IF s = << >> THEN classes
    ELSE IF s = me THEN Assign(classes, s, "sent")
    ELSE IF s \notin DOMAIN classes THEN Assign(classes, s, "received")
    ELSE classes

\* PositionalStep with a fault: the second sender is not required to differ
\* from the first
PositionalStep_SecondMayRepeat(st, s) ==
    IF s = << >> THEN st
    ELSE IF st.first = None
    THEN [first |-> Some(s), second |-> st.second,
          classes |-> Assign(st.classes, s, "received")]
    ELSE IF st.second = None
    THEN [first |-> st.first, second |-> Some(s),
          classes |-> Assign(st.classes, s, "sent")]
    ELSE IF s \notin DOMAIN st.classes
    THEN [first |-> st.first, second |-> st.second,
          classes |-> Assign(st.classes, s, "received")]
    ELSE st

\* PositionalStep with a fault: the empty sender is not passed over
PositionalStep_CountsEmpty(st, s) ==
    IF st.first = None
    THEN [first |-> Some(s), second |-> st.second,
          classes |-> Assign(st.classes, s, "received")]
    ELSE IF st.second = None /\ Some(s) # st.first
    THEN [first |-> st.first, second |-> Some(s),
          classes |-> Assign(st.classes, s, "sent")]
    ELSE IF s \notin DOMAIN st.classes
    THEN [first |-> st.first, second |-> st.second,
          classes |-> Assign(st.classes, s, "received")]
    ELSE st

\* the body of the loop of the positional mode, for a message of sender s;
\* st is [first, second, classes]
PositionalStep(st, s) ==
    IF s = << >> THEN st
    ELSE IF st.first = None
    THEN [first |-> Some(s), second |-> st.second,
          classes |-> Assign(st.classes, s, "received")]
    ELSE IF st.second = None /\ Some(s) # st.first
    THEN [first |-> st.first, second |-> Some(s),
          classes |-> Assign(st.classes, s, "sent")]
    ELSE IF s \notin DOMAIN st.classes
    THEN [first |-> st.first, second |-> st.second,
          classes |-> Assign(st.classes, s, "received")]
    ELSE st

RECURSIVE ExplicitFrom(_, _, _, _)
ExplicitFrom(msgs, i, classes, me) ==
    IF i > Len(msgs) THEN classes
    ELSE The({ExplicitFrom(msgs, i + 1, c, me)
              : c \in {ExplicitStep(classes, msgs[i].sender, me)}})

RECURSIVE PositionalFrom(_, _, _)
PositionalFrom(msgs, i, st) ==
    IF i > Len(msgs) THEN st.classes
    ELSE The({PositionalFrom(msgs, i + 1, n)
              : n \in {PositionalStep(st, msgs[i].sender)}})

\* build_sender_classes(messages, me_name)
build_sender_classes(msgs, me) ==
    IF Truthy(me) THEN ExplicitFrom(msgs, 1, << >>, me[1])
    ELSE PositionalFrom(msgs, 1, [first |-> None, second |-> None, classes |-> << >>])

-----------------------------------------------------------------------------
(* classify_media and build_media_index. The media index, a dict, is the   *)
(* sequence of its [key, value] items in insertion order.                  *)

AUDIO_EXTS ==
    {<<"o", "p", "u", "s">>,
     <<"o", "g", "g">>,
     <<"m", "p", "3">>,
     <<"w", "a", "v">>,
     <<"m", "4", "a">>}

MEDIA_EXTS ==
    {<<"j", "p", "g">>,
     <<"j", "p", "e", "g">>,
     <<"p", "n", "g">>,
     <<"g", "i", "f">>,
     <<"m", "p", "4">>,
     <<"m", "o", "v">>,
     <<"m", "k", "v">>,
     <<"w", "e", "b", "m">>,
     <<"o", "p", "u", "s">>,
     <<"o", "g", "g">>,
     <<"m", "p", "3">>,
     <<"w", "a", "v">>,
     <<"m", "4", "a">>,
     <<"w", "e", "b", "p">>,
     <<"p", "d", "f">>,
     <<"w", "a", "s">>}

ImageExts ==
    {<<"j", "p", "g">>,
     <<"j", "p", "e", "g">>,
     <<"p", "n", "g">>,
     <<"g", "i", "f">>,
     <<"w", "e", "b", "p">>}

VideoExts ==
    {<<"m", "p", "4">>,
     <<"m", "o", "v">>,
     <<"m", "k", "v">>,
     <<"w", "e", "b", "m">>}

classify_media(filename) ==
    The({IF ext \in ImageExts THEN "image"
         ELSE IF ext \in VideoExts THEN "video"
         ELSE IF ext \in AUDIO_EXTS THEN "audio"
         ELSE IF ext = <<"p", "d", "f">> THEN "pdf"
         ELSE "file"
         : ext \in {Extension(Lower(filename))}})

HasKey(index, key) == \E i \in 1..Len(index) : index[i].key = key

\* index[key]
IndexGet(index, key) ==
    The({index[i].value : i \in {j \in 1..Len(index) : index[j].key = key}})

\* index[key] = value: a new key goes last, a known key keeps its place
IndexPut(index, key, value) ==
    IF HasKey(index, key)
    THEN [i \in 1..Len(index) |->
             IF index[i].key = key THEN [key |-> key, value |-> value] ELSE index[i]]
    ELSE Append(index, [key |-> key, value |-> value])

\* the body of the loops of build_media_index for one file of the walk;
\* file.dir is the directory of the file relative to the directory of the
\* output file, as os.path.relpath gives it ("" or ending in a separator)
IndexFile(index, file) ==
    IF \A i \in 1..Len(file.name) : file.name[i] # "." THEN index
    ELSE IF Lower(Extension(file.name)) \notin MEDIA_EXTS THEN index
    ELSE IndexPut(index, Lower(file.name),
                  ReplaceChar(file.dir \o file.name, "\\", "/"))

RECURSIVE IndexFrom(_, _, _)
IndexFrom(files, i, index) ==
    IF i > Len(files) THEN index
    ELSE The({IndexFrom(files, i + 1, n) : n \in {IndexFile(index, files[i])}})

\* build_media_index(media_dir, output_html_path), files in os.walk order
build_media_index(files) == IndexFrom(files, 1, << >>)

-----------------------------------------------------------------------------
(* render_message_html. The returned markup is a record: the template is   *)
(* its shape, the interpolated values are its fields. A content part is    *)
(* [kind, src, label, caption]: kind names the template ("span", "image",  *)
(* "video", "audio", "pdf", "file"), src is the value of href/src, label   *)
(* the text shown, caption the optional transcription block.               *)

\* the while loop for one key: its occurrences in lower_text from start on
RECURSIVE FindAll(_, _, _)
FindAll(lower_text, fname_lower, start) ==
    The({IF idx = -1 THEN << >>
         ELSE <<[start |-> idx, end |-> idx + Len(fname_lower), key |-> fname_lower]>>
              \o FindAll(lower_text, fname_lower, idx + Len(fname_lower))
         : idx \in {Find(lower_text, fname_lower, start)}})

\* occurrences.sort(key=start): a stable sort; o goes after the items whose
\* start is not greater
RECURSIVE InsertByStart(_, _)
InsertByStart(sorted, o) ==
    IF sorted = << >> THEN <<o>>
    ELSE IF sorted[Len(sorted)].start <= o.start THEN Append(sorted, o)
    ELSE Append(InsertByStart(SubSeq(sorted, 1, Len(sorted) - 1), o),
                sorted[Len(sorted)])

RECURSIVE SortByStart(_)
SortByStart(occs) ==
    IF occs = << >> THEN << >>
    ELSE InsertByStart(SortByStart(SubSeq(occs, 1, Len(occs) - 1)), occs[Len(occs)])

Span(body) == [kind |-> "span", src |-> << >>, label |-> body, caption |-> None]

\* MediaPart with a fault: the file name label is not escaped
MediaPart_RawLabel(filename, rel_path, fname_lower, trans) ==
    The({IF media_type = "image"
         THEN [kind |-> "image", src |-> escape(rel_path), label |-> << >>,
               caption |-> None]
         ELSE IF media_type = "video"
         THEN [kind |-> "video", src |-> escape(rel_path), label |-> << >>,
               caption |-> None]
         ELSE IF media_type = "audio"
         THEN [kind |-> "audio", src |-> escape(rel_path), label |-> << >>,
               caption |-> IF HasKey(trans, fname_lower)
                           THEN Some(escape(IndexGet(trans, fname_lower)))
                           ELSE None]
         ELSE IF media_type = "pdf"
         THEN [kind |-> "pdf", src |-> escape(rel_path), label |-> filename,
               caption |-> None]
         ELSE [kind |-> "file", src |-> escape(rel_path), label |-> filename,
               caption |-> None]
         : media_type \in {classify_media(filename)}})

\* the block appended for an occurrence of filename, by media type
MediaPart(filename, rel_path, fname_lower, trans) ==
    The({IF media_type = "image"
         THEN [kind |-> "image", src |-> escape(rel_path), label |-> << >>,
               caption |-> None]
         ELSE IF media_type = "video"
         THEN [kind |-> "video", src |-> escape(rel_path), label |-> << >>,
               caption |-> None]
         ELSE IF media_type = "audio"
         THEN [kind |-> "audio", src |-> escape(rel_path), label |-> << >>,
               caption |-> IF HasKey(trans, fname_lower)
                           THEN Some(escape(IndexGet(trans, fname_lower)))
                           ELSE None]
         ELSE IF media_type = "pdf"
         THEN [kind |-> "pdf", src |-> escape(rel_path), label |-> escape(filename),
               caption |-> None]
         ELSE [kind |-> "file", src |-> escape(rel_path), label |-> escape(filename),
               caption |-> None]
         : media_type \in {classify_media(filename)}})

\* the body of the for loop over the sorted occurrences; st is [parts, cur]
EmitOccurrence(st, occ, text, index, trans) ==
    [parts |-> (IF occ.start > st.cur
                THEN Append(st.parts, Span(escape(Slice(text, st.cur, occ.start))))
                ELSE st.parts)
               \o <<MediaPart(Slice(text, occ.start, occ.end), IndexGet(index, occ.key),
                              occ.key, trans)>>,
     cur |-> occ.end]

AttachedPT == <<"(", "a", "r", "q", "u", "i", "v", "o", " ", "a", "n", "e", "x", "a", "d", "o", ")">>
AttachedEN == <<"(", "f", "i", "l", "e", " ", "a", "t", "t", "a", "c", "h", "e", "d", ")">>

\* the text after the last occurrence with the attachment phrases removed
TrailingText(after) ==
    The({Strip(Remove(a, AttachedEN)) : a \in {Strip(Remove(after, AttachedPT))}})

\* what follows the for loop: the trailing text, if any is left
EmitTail(st, text) ==
    IF st.cur < Len(text)
    THEN The({IF after # << >> THEN Append(st.parts, Span(escape(after)))
              ELSE st.parts
              : after \in {TrailingText(Slice(text, st.cur, Len(text)))}})
    ELSE st.parts

\* all occurrences of all keys, in the order they are collected
RECURSIVE CollectFrom(_, _, _)
CollectFrom(lower_text, index, i) ==
    IF i > Len(index) THEN << >>
    ELSE FindAll(lower_text, index[i].key, 0) \o CollectFrom(lower_text, index, i + 1)

RECURSIVE EmitFrom(_, _, _, _, _, _)
EmitFrom(st, occs, i, text, index, trans) ==
    IF i > Len(occs) THEN st
    ELSE The({EmitFrom(n, occs, i + 1, text, index, trans)
              : n \in {EmitOccurrence(st, occs[i], text, index, trans)}})

\* content_html
Content(text, index, trans) ==
    The({IF occs = << >> THEN <<Span(escape(text))>>
         ELSE The({EmitTail(st, text)
                   : st \in {EmitFrom([parts |-> << >>, cur |-> 0], SortByStart(occs),
                                      1, text, index, trans)}})
         : occs \in {CollectFrom(Lower(text), index, 0 + 1)}})

System == <<"S", "y", "s", "t", "e", "m">>

\* the returned block around content_html
Block(message, classes, content) ==
    [class |-> Lane(classes, message.sender),
     sender |-> IF message.sender # << >> THEN escape(message.sender) ELSE System,
     timestamp |-> The({Strip(ts)
                        : ts \in {escape(message.date) \o <<" ">> \o escape(message.time)}}),
     content |-> content]

render_message_html(message, index, classes, trans) ==
    Block(message, classes, Content(message.text, index, trans))

-----------------------------------------------------------------------------
(* Messages, media directories and transcriptions the renderer is run on.  *)

File(dir, name) == [dir |-> dir, name |-> name]

MediaDir == <<"m", "/">>
OddDir == <<"o", "'", "k", "/">>

FileLists ==
    {<< >>,
     <<File(MediaDir, <<"a", ".", "j", "p", "g">>), File(MediaDir, <<"b", ".", "p", "d", "f">>), File(MediaDir, <<"v", ".", "o", "p", "u", "s">>)>>,
     <<File(MediaDir, <<"b", "a", ".", "j", "p", "g">>), File(MediaDir, <<"a", ".", "j", "p", "g">>)>>,
     <<File(MediaDir, <<"a", ".", "j", "p", "g", ".", "p", "d", "f">>), File(MediaDir, <<"a", ".", "j", "p", "g">>), File(MediaDir, <<"n", ".", "t", "x", "t">>)>>,
     <<File(MediaDir, <<"A", ".", "J", "P", "G">>), File(OddDir, <<"a", ".", "j", "p", "g">>), File(OddDir, <<"d", "&", "e", ".", "p", "d", "f">>),
       File(MediaDir, <<"n", "o", "e", "x", "t">>)>>,
     <<File(MediaDir, <<"m", ".", "m", "p", "4">>), File(MediaDir, <<"s", ".", "w", "a", "s">>), File(MediaDir, <<"v", ".", "o", "p", "u", "s">>)>>}

TextChoices ==
    {<< >>,
     <<"<", "b", ">", "&", "'", "\"">>,
     <<"a", ".", "j", "p", "g", " ", "(", "f", "i", "l", "e", " ", "a", "t", "t", "a", "c", "h", "e", "d", ")">>,
     <<"A", ".", "J", "P", "G", " ", "(", "a", "r", "q", "u", "i", "v", "o", " ", "a", "n", "e", "x", "a", "d", "o", ")">>,
     <<"x", " ", "a", ".", "j", "p", "g", " ", "<", "b", ".", "p", "d", "f", " ", "y">>,
     <<"b", "a", ".", "j", "p", "g", " ", "(", "f", "i", "l", "e", " ", "a", "t", "t", "a", "c", "h", "e", "d", ")">>,
     <<"v", ".", "o", "p", "u", "s", "\n", "V", ".", "O", "P", "U", "S">>,
     <<"D", "&", "e", ".", "p", "d", "f">>,
     <<"a", ".", "j", "p", "g", ".", "p", "d", "f">>,
     <<"a", ".", "j", "p", "g", " ", "(", "f", "i", "l", "e", " ", "a", "t", "t", "a", "c", "h", "e", "d", ")", " ", "<", "z">>,
     <<"m", ".", "m", "p", "4", "s", ".", "w", "a", "s">>}

TranscriptionChoices ==
    {<< >>, <<[key |-> <<"v", ".", "o", "p", "u", "s">>, value |-> <<"q", "<", "r">>]>>}

Date == <<"1", "/", "2", "/", "2", "5">>
Time == <<"9", ":", "0", "5">>

-----------------------------------------------------------------------------
(* Conversations the classifier is run on.                                 *)

MaxMsgs == 4

Ana == <<"A", "n", "a">>
AnaLowercase == <<"a", "n", "a">>
Bob == <<"B", "o", "b">>
Carl == <<"C", "a", "r", "l">>
Zed == <<"Z", "e", "d">>

SenderChoices == {<< >>, Ana, AnaLowercase, Bob, Carl}

MeChoices == {None, Some(<< >>), Some(Ana), Some(Zed)}

Conversations ==
    UNION {[1..n -> {Message(<< >>, << >>, s, << >>) : s \in SenderChoices}]
           : n \in 0..MaxMsgs}

-----------------------------------------------------------------------------
(* build_sender_classes as steps: one action per loop iteration and one    *)
(* per return.                                                             *)

RunIdle ==
    /\ pc = "idle"
    /\ chat_exists = FALSE
    /\ media_dir_exists = FALSE
    /\ out_in_media_dir = FALSE
    /\ media_files = << >>
    /\ sidecars = << >>
    /\ transcribe = FALSE
    /\ transcribe_limit = None
    /\ t_msg = 0
    /\ t_key = 0
    /\ count = 0
    /\ transcribed = 0
    /\ t_log = << >>
    /\ output_file = None
    /\ writes = 0

AssemblerIdle ==
    /\ now = 0
    /\ pages = << >>
    /\ rendered_at = << >>

RendererIdle ==
    /\ msg = Message(<< >>, << >>, << >>, << >>)
    /\ media_index = << >>
    /\ transcriptions = << >>
    /\ occurrences = << >>
    /\ r_key = 0
    /\ r_occ = 0
    /\ parts = << >>
    /\ cur = 0
    /\ r_pc = "idle"
    /\ html = None

ClassifierIdle ==
    /\ me_name = None
    /\ sc_pos = 0
    /\ first = None
    /\ second = None
    /\ sender_classes = << >>
    /\ sc_pc = "idle"

ClassifierInit ==
    /\ messages \in Conversations
    /\ me_name \in MeChoices
    /\ sc_pos = 0
    /\ first = None
    /\ second = None
    /\ sender_classes = << >>
    /\ sc_pc = IF Truthy(me_name) THEN "explicit" ELSE "positional"
    /\ chat_lines = << >>
    /\ pos = 0
    /\ current = 0
    /\ RendererIdle
    /\ RunIdle
    /\ AssemblerIdle

ExplicitIteration ==
    /\ sc_pc = "explicit"
    /\ sc_pos < Len(messages)
    /\ sender_classes' = ExplicitStep(sender_classes, messages[sc_pos + 1].sender,
                                      me_name[1])
    /\ sc_pos' = sc_pos + 1
    /\ UNCHANGED <<me_name, first, second, sc_pc, parserVars, rendererVars, runVars, assemblerVars>>

ExplicitReturn ==
    /\ sc_pc = "explicit"
    /\ sc_pos = Len(messages)
    /\ sc_pc' = "returned"
    /\ UNCHANGED <<me_name, sc_pos, first, second, sender_classes, parserVars, rendererVars, runVars, assemblerVars>>

PositionalIteration ==
    /\ sc_pc = "positional"
    /\ sc_pos < Len(messages)
    /\ \E n \in {PositionalStep([first |-> first, second |-> second,
                                 classes |-> sender_classes],
                                messages[sc_pos + 1].sender)} :
          /\ first' = n.first
          /\ second' = n.second
          /\ sender_classes' = n.classes
    /\ sc_pos' = sc_pos + 1
    /\ UNCHANGED <<me_name, sc_pc, parserVars, rendererVars, runVars, assemblerVars>>

PositionalReturn ==
    /\ sc_pc = "positional"
    /\ sc_pos = Len(messages)
    /\ sc_pc' = "returned"
    /\ UNCHANGED <<me_name, sc_pos, first, second, sender_classes, parserVars, rendererVars, runVars, assemblerVars>>

ClassifierNext ==
    ExplicitIteration \/ ExplicitReturn \/ PositionalIteration \/ PositionalReturn

SpecClassifier == ClassifierInit /\ [][ClassifierNext]_vars

-----------------------------------------------------------------------------
(* render_message_html as steps: the search for each key, the sort, one    *)
(* step per occurrence, the trailing text, the return.                     *)

SenderSpecial == <<"a", "<", "b">>

RendererInit ==
    /\ \E text \in TextChoices, sender \in {<< >>, Ana, SenderSpecial} :
          msg = Message(Date, Time, sender, text)
    /\ \E files \in FileLists : media_index = build_media_index(files)
    /\ transcriptions \in TranscriptionChoices
    /\ occurrences = << >>
    /\ r_key = 0
    /\ r_occ = 0
    /\ parts = << >>
    /\ cur = 0
    /\ r_pc = "scan"
    /\ html = None
    /\ messages = <<msg>>
    /\ me_name \in {None, Some(Ana)}
    /\ sender_classes = build_sender_classes(messages, me_name)
    /\ sc_pc = "returned"
    /\ sc_pos = 0 /\ first = None /\ second = None
    /\ chat_lines = << >> /\ pos = 0 /\ current = 0
    /\ RunIdle
    /\ AssemblerIdle

rendererInputs ==
    <<msg, media_index, transcriptions, parserVars, classifierVars, runVars, assemblerVars>>

\* one pass of "for fname_lower in media_index.keys()" with its while loop
ScanKey ==
    /\ r_pc = "scan"
    /\ r_key < Len(media_index)
    /\ occurrences' =
          occurrences \o FindAll(Lower(msg.text), media_index[r_key + 1].key, 0)
    /\ r_key' = r_key + 1
    /\ UNCHANGED <<r_occ, parts, cur, r_pc, html, rendererInputs>>

\* "if not occurrences": the text is one escaped span
NoMedia ==
    /\ r_pc = "scan"
    /\ r_key = Len(media_index)
    /\ occurrences = << >>
    /\ parts' = <<Span(escape(msg.text))>>
    /\ r_pc' = "wrap"
    /\ UNCHANGED <<occurrences, r_key, r_occ, cur, html, rendererInputs>>

\* "else": occurrences.sort, parts = [], cur = 0
SortOccurrences ==
    /\ r_pc = "scan"
    /\ r_key = Len(media_index)
    /\ occurrences # << >>
    /\ occurrences' = SortByStart(occurrences)
    /\ parts' = << >>
    /\ cur' = 0
    /\ r_pc' = "emit"
    /\ UNCHANGED <<r_key, r_occ, html, rendererInputs>>

\* one pass of "for start, end, fname_lower in occurrences"
EmitNext ==
    /\ r_pc = "emit"
    /\ r_occ < Len(occurrences)
    /\ \E n \in {EmitOccurrence([parts |-> parts, cur |-> cur], occurrences[r_occ + 1],
                                msg.text, media_index, transcriptions)} :
          /\ parts' = n.parts
          /\ cur' = n.cur
    /\ r_occ' = r_occ + 1
    /\ UNCHANGED <<occurrences, r_key, r_pc, html, rendererInputs>>

\* "if cur < len(text)" after the loop
EmitTrailing ==
    /\ r_pc = "emit"
    /\ r_occ = Len(occurrences)
    /\ parts' = EmitTail([parts |-> parts, cur |-> cur], msg.text)
    /\ r_pc' = "wrap"
    /\ UNCHANGED <<occurrences, r_key, r_occ, cur, html, rendererInputs>>

\* content_html is joined and the block is returned
ReturnBlock ==
    /\ r_pc = "wrap"
    /\ html' = Some(Block(msg, sender_classes, parts))
    /\ r_pc' = "returned"
    /\ UNCHANGED <<occurrences, r_key, r_occ, parts, cur, rendererInputs>>

RendererNext ==
    ScanKey \/ NoMedia \/ SortOccurrences \/ EmitNext \/ EmitTrailing \/ ReturnBlock

SpecRenderer == RendererInit /\ [][RendererNext]_vars

-----------------------------------------------------------------------------
(* Properties of render_message_html, checked under SpecRenderer.          *)

\* the characters html.escape replaces
Unsafe == {"<", ">", "&", "\"", "'"}

HasUnsafe(str) == \E i \in 1..Len(str) : str[i] \in Unsafe

PartIsEscaped(part) ==
    /\ ~HasUnsafe(part.src)
    /\ ~HasUnsafe(part.label)
    /\ (part.caption # None => ~HasUnsafe(part.caption[1]))

\* C5: none of the characters < > & " ' of the input data reaches the output
\* unescaped: not in a plain span, a file name label, a media path or a
\* transcription caption of any part built so far, nor in the sender, the
\* timestamp or the content of the returned block.
C5_OutputEscaped ==
    /\ \A i \in 1..Len(parts) : PartIsEscaped(parts[i])
    /\ (html # None =>
          /\ ~HasUnsafe(html[1].sender)
          /\ ~HasUnsafe(html[1].timestamp)
          /\ \A i \in 1..Len(html[1].content) : PartIsEscaped(html[1].content[i]))

\* a block is returned for a message whose sender, file name and media path
\* hold such characters; the label and the path appear with their entities
C5_Witness ==
    /\ html # None
    /\ HasUnsafe(msg.sender)
    /\ \E i \in 1..Len(html[1].content) :
          /\ html[1].content[i].kind = "pdf"
          /\ \E k \in 1..Len(html[1].content[i].label) :
                html[1].content[i].label[k] = "&amp;"
          /\ \E k \in 1..Len(html[1].content[i].src) :
                html[1].content[i].src[k] = "&#x27;"

\* text is the file name of index key i, a space, and an attachment phrase,
\* and the file is an image
IsImageAttachment(text, i) ==
    \E key \in {media_index[i].key} :
        /\ classify_media(key) = "image"
        /\ Len(text) > Len(key)
        /\ Lower(SubSeq(text, 1, Len(key))) = key
        /\ SubSeq(text, Len(key) + 1, Len(text)) \in
              {<<" ">> \o AttachedEN, <<" ">> \o AttachedPT}

ImageParts(content) == {k \in 1..Len(content) : content[k].kind = "image"}

ShowsPhrase(part) ==
    /\ part.kind = "span"
    /\ (Find(part.label, AttachedEN, 0) # -1 \/ Find(part.label, AttachedPT, 0) # -1)

\* C6: for a message whose text is an indexed image file name followed by an
\* attachment phrase, the returned block holds exactly one image block, its
\* link and source are the relative path the index gives for that name, and
\* no span shows the attachment phrase.
C6_OneImageBlock ==
    html # None =>
        \A i \in 1..Len(media_index) :
            IsImageAttachment(msg.text, i) =>
                /\ Cardinality(ImageParts(html[1].content)) = 1
                /\ \A k \in ImageParts(html[1].content) :
                      html[1].content[k].src = escape(media_index[i].value)
                /\ \A k \in 1..Len(html[1].content) : ~ShowsPhrase(html[1].content[k])

-----------------------------------------------------------------------------
(* Properties of build_sender_classes, checked under SpecClassifier.       *)

Sender(i) == messages[i].sender

\* the lane render_message_html gives message i
RenderedLane(i) == Lane(sender_classes, Sender(i))

\* C3: explicit mode: once build_sender_classes has returned, every message
\* whose sender equals me_name exactly renders in lane "sent" and every
\* other message renders in lane "received", whatever the order and the
\* number of occurrences of the senders.
C3_ExplicitLanes ==
    (sc_pc = "returned" /\ Truthy(me_name)) =>
        \A i \in 1..Len(messages) :
            RenderedLane(i) = IF Sender(i) = me_name[1] THEN "sent" ELSE "received"

\* explicit mode has returned on a conversation where another sender speaks
\* before me_name, me_name speaks twice, and a name that differs from
\* me_name only in case occurs
C3_Witness ==
    /\ sc_pc = "returned"
    /\ me_name = Some(Ana)
    /\ \E i, j, k \in 1..Len(messages) :
          /\ i < j /\ j < k
          /\ Sender(i) = Bob /\ Sender(j) = Ana /\ Sender(k) = Ana
    /\ \E i \in 1..Len(messages) : Sender(i) = AnaLowercase

\* the distinct non-empty senders of the first n messages, in order of first
\* appearance
RECURSIVE DistinctSenders(_)
DistinctSenders(n) ==
    IF n = 0 THEN << >>
    ELSE The({IF Sender(n) = << >> \/ \E k \in 1..Len(d) : d[k] = Sender(n)
              THEN d ELSE Append(d, Sender(n))
              : d \in {DistinctSenders(n - 1)}})

\* C4: positional mode: after any number of messages scanned, the map holds
\* exactly the distinct non-empty senders seen so far, the first of them
\* "received", the second "sent", every later one "received" (so a sender's
\* lane never changes once given), and exactly one sender is "sent" whenever
\* at least two distinct senders have occurred.
C4_PositionalLanes ==
    (sc_pc \in {"positional", "returned"} /\ ~Truthy(me_name)) =>
        \A d \in {DistinctSenders(sc_pos)} :
            /\ DOMAIN sender_classes = {d[k] : k \in 1..Len(d)}
            /\ \A k \in 1..Len(d) :
                  sender_classes[d[k]] = IF k = 2 THEN "sent" ELSE "received"
            /\ (Len(d) >= 2 =>
                  Cardinality({x \in DOMAIN sender_classes :
                                  sender_classes[x] = "sent"}) = 1)

\* positional mode has returned on a conversation with three distinct
\* senders where the first sender speaks again after the second
C4_Witness ==
    /\ sc_pc = "returned"
    /\ ~Truthy(me_name)
    /\ Len(DistinctSenders(Len(messages))) >= 3
    /\ \E i, j, k \in 1..Len(messages) :
          /\ i < j /\ j < k
          /\ Sender(i) = Sender(k) /\ Sender(i) # << >>
          /\ Sender(j) # Sender(i) /\ Sender(j) # << >>

-----------------------------------------------------------------------------
(* Transcripts the parser is run on.                                       *)

MaxLines == 3

LineMessage == <<"1", "/", "2", "/", "2", "5", ",", " ", "9", ":", "0", "5", " ", "-", " ", "A", "n", "a", ":", " ", "h", "i">>
LineMessagePM == <<"1", "/", "2", "/", "2", "5", " ", "9", ":", "0", "5", " ", "P", "M", " ", "-", " ", "B", "o", "b", " ", ":", " ", "o", "k">>
LineSystem == <<"1", "/", "2", "/", "2", "5", ",", " ", "9", ":", "0", "5", " ", "-", " ", "j", "o", "i", "n", "e", "d">>
LineText == <<" ", "m", "o", "r", "e", " ">>
LineEmpty == << >>
LineNearHeader == <<"1", "/", "2", "/", "2", "5", ",", " ", "9", ":", "5", " ", "-", " ", "x", ":", " ", "y">>

LineChoices ==
    {LineMessage, LineMessagePM, LineSystem, LineText, LineEmpty, LineNearHeader}

\* the file as the for loop reads it: every line ends with its newline
Transcripts ==
    UNION {[1..n -> {l \o <<"\n">> : l \in LineChoices}] : n \in 0..MaxLines}

-----------------------------------------------------------------------------
(* parse_chat as steps: one action per branch of the loop body.            *)

ParserInit ==
    /\ chat_lines \in Transcripts
    /\ pos = 0
    /\ messages = << >>
    /\ current = 0
    /\ ClassifierIdle
    /\ RendererIdle
    /\ RunIdle
    /\ AssemblerIdle

NextLine == RStripNewline(chat_lines[pos + 1])

Consume(line) ==
    /\ \E r \in {ParseLine(messages, current, line)} :
          /\ messages' = r.messages
          /\ current' = r.current
    /\ pos' = pos + 1
    /\ UNCHANGED <<chat_lines, classifierVars, rendererVars, runVars, assemblerVars>>

OnMessageHeader ==
    /\ pos < Len(chat_lines)
    /\ \E line \in {NextLine} :
          /\ MESSAGE_RE(line) # {}
          /\ Consume(line)

OnSystemHeader ==
    /\ pos < Len(chat_lines)
    /\ \E line \in {NextLine} :
          /\ MESSAGE_RE(line) = {}
          /\ SYSTEM_RE(line) # {}
          /\ Consume(line)

OnContinuation ==
    /\ pos < Len(chat_lines)
    /\ \E line \in {NextLine} :
          /\ ~IsHeaderLine(line)
          /\ current # 0
          /\ Consume(line)

OnOrphan ==
    /\ pos < Len(chat_lines)
    /\ \E line \in {NextLine} :
          /\ ~IsHeaderLine(line)
          /\ current = 0
          /\ Consume(line)

ParserNext == OnMessageHeader \/ OnSystemHeader \/ OnContinuation \/ OnOrphan

SpecParser == ParserInit /\ [][ParserNext]_vars

-----------------------------------------------------------------------------
(* Properties of parse_chat, checked under SpecParser.                     *)

\* the i-th line of the file as the loop body sees it
Line(i) == RStripNewline(chat_lines[i])

ConsumedHeader(i) == \E line \in {Line(i)} : IsHeaderLine(line)

\* C1 (as stated): the number of Message records is at most the number of
\* lines consumed, and the two are equal only when every consumed line is a
\* header line.
C1_EqualOnlyIfAllHeaders ==
    /\ Len(messages) <= pos
    /\ (Len(messages) = pos => \A i \in 1..pos : ConsumedHeader(i))

\* C1 (amended): the number of Message records is at most the number of
\* lines consumed, and the two are equal only when every consumed line after
\* the first is a header line (a first line that is no header opens a record
\* of its own).
C1_RecordsAtMostLines ==
    /\ Len(messages) <= pos
    /\ (Len(messages) = pos => \A i \in 2..pos : ConsumedHeader(i))

\* the whole file is parsed, it starts with a non-header line, and there are
\* as many records as lines
C1_Witness ==
    /\ pos = Len(chat_lines)
    /\ pos >= 2
    /\ ~ConsumedHeader(1)
    /\ Len(messages) = pos

\* the lines that opened a record: the header lines, and the first line
Openers(n) == {i \in 1..n : i = 1 \/ ConsumedHeader(i)}

LastOpener == CHOOSE h \in Openers(pos) : \A i \in Openers(pos) : i <= h

\* the text a record starts with: the text group of the header, or the whole
\* line for a record opened by a non-header line
FirstText(line) ==
    IF MESSAGE_RE(line) # {} THEN The({m.text : m \in MESSAGE_RE(line)})
    ELSE IF SYSTEM_RE(line) # {} THEN The({g.text : g \in SYSTEM_RE(line)})
    ELSE line

\* the opening text of line h followed by "\n" + line for the lines h+1..j
RECURSIVE Folded(_, _)
Folded(h, j) ==
    IF j <= h THEN The({FirstText(line) : line \in {Line(h)}})
    ELSE Folded(h, j - 1) \o <<"\n">> \o Line(j)

\* C2: after a header line and k non-header lines there is one record for
\* them, the last one, and its text is the header's text followed by
\* "\n" + line for each of the k lines, unchanged and in input order; the
\* non-header lines add no record.
C2_ContinuationAppends ==
    pos >= 1 =>
        /\ current = Len(messages)
        /\ Len(messages) = Cardinality(Openers(pos))
        /\ messages[Len(messages)].text = Folded(LastOpener, pos)

\* a header line followed by two non-header lines, one of them with leading
\* and trailing whitespace
C2_Witness ==
    /\ pos = 3
    /\ ConsumedHeader(1) /\ ~ConsumedHeader(2) /\ ~ConsumedHeader(3)
    /\ LineText \in {Line(2), Line(3)}
    /\ Len(messages) = 1

-----------------------------------------------------------------------------
(* Transcription files, load_transcriptions and generate_html. The files   *)
(* on disk are a function from path to content; a path is written relative *)
(* to the directory of the output file, as the values of the media index   *)
(* are.                                                                    *)

OriginalSuffix == <<".", "o", "r", "i", "g", "i", "n", "a", "l", ".", "t", "x", "t">>
CorrectedSuffix == <<".", "t", "x", "t">>

\* os.path.isfile(path), os.path.exists(path) for a transcription file
isfile(fs, path) == path \in DOMAIN fs

\* with open(path, "w") as f: f.write(text)
WriteFile(fs, path, text) == (path :> text) @@ fs

\* LoadItem with a fault: the raw file is preferred to the corrected one
LoadItem_PrefersOriginal(trans, item, fs) ==
    IF Extension(item.key) \notin AUDIO_EXTS THEN trans
    ELSE The({IF isfile(fs, txt_path)
              THEN IndexPut(trans, item.key, Strip(fs[txt_path]))
              ELSE trans
              : txt_path \in {IF isfile(fs, item.value \o OriginalSuffix)
                              THEN item.value \o OriginalSuffix
                              ELSE item.value \o CorrectedSuffix}})

\* the body of the loop of load_transcriptions for one item of the index
LoadItem(trans, item, fs) ==
    IF Extension(item.key) \notin AUDIO_EXTS THEN trans
    ELSE The({IF isfile(fs, txt_path)
              THEN IndexPut(trans, item.key, Strip(fs[txt_path]))
              ELSE trans
              : txt_path \in {IF isfile(fs, item.value \o CorrectedSuffix)
                              THEN item.value \o CorrectedSuffix
                              ELSE item.value \o OriginalSuffix}})

RECURSIVE LoadFrom(_, _, _, _)
LoadFrom(index, i, trans, fs) ==
    IF i > Len(index) THEN trans
    ELSE The({LoadFrom(index, i + 1, n, fs) : n \in {LoadItem(trans, index[i], fs)}})

load_transcriptions(index, fs) == LoadFrom(index, 1, << >>, fs)

\* a title that shows the instant instead of the minute
Title_Instant(t) == t

\* datetime.now().strftime('%Y-%m-%d %H:%M'): the clock, counted in half
\* minutes, cut to the minute
Title(t) == t \div 2

\* the document generate_html writes: the title and the message blocks are
\* what it interpolates into the fixed shell
generate_html(msgs, index, me, trans, t) ==
    The({[title |-> Title(t),
          body |-> [i \in 1..Len(msgs) |->
                       render_message_html(msgs[i], index, classes, trans)]]
         : classes \in {build_sender_classes(msgs, me)}})

-----------------------------------------------------------------------------
(* main and transcribe_audios as steps. The runs are those without         *)
(* --correct and --correct-interactive.                                    *)

MaxRunLines == 2
MaxLimit == 2

RunLineAudio == <<"1", "/", "2", "/", "2", "5", ",", " ", "9", ":", "0", "5", " ", "-", " ", "A", "n", "a", ":", " ", "v", ".", "o", "p", "u", "s", " ", "(", "f", "i", "l", "e", " ", "a", "t", "t", "a", "c", "h", "e", "d", ")">>
RunLineTwoAudios == <<"1", "/", "2", "/", "2", "5", ",", " ", "9", ":", "0", "5", " ", "-", " ", "B", "o", "b", ":", " ", "w", ".", "o", "g", "g", " ", "V", ".", "O", "P", "U", "S">>
RunLineImage == <<"1", "/", "2", "/", "2", "5", ",", " ", "9", ":", "0", "5", " ", "-", " ", "B", "o", "b", ":", " ", "a", ".", "j", "p", "g">>
RunLineMore == <<"w", ".", "o", "g", "g">>

RunLineChoices == {RunLineAudio, RunLineTwoAudios, RunLineImage, RunLineMore}

RunTranscripts ==
    UNION {[1..n -> {line \o <<"\n">> : line \in RunLineChoices}] : n \in 0..MaxRunLines}

AudioV == <<"v", ".", "o", "p", "u", "s">>
AudioW == <<"w", ".", "o", "g", "g">>

RunFiles(dir) == <<File(dir, AudioV), File(dir, AudioW), File(dir, <<"a", ".", "j", "p", "g">>)>>

RawText == <<"r", "a", "w">>
FixedText == <<" ", "f", "i", "x", "\n">>

SidecarChoices(dir) ==
    {<< >>,
     (dir \o AudioV \o OriginalSuffix) :> RawText,
     (dir \o AudioV \o OriginalSuffix) :> RawText @@ (dir \o AudioV \o CorrectedSuffix) :> FixedText,
     (dir \o AudioV \o CorrectedSuffix) :> FixedText}

LimitChoices == {None} \cup {Some(n) : n \in 0..MaxLimit}

\* result.text of a speech-to-text call that returns
STTResults == {<<" ", "o", "k">>}

RunInit ==
    /\ pc = "start"
    /\ chat_exists \in BOOLEAN
    /\ chat_lines \in IF chat_exists THEN RunTranscripts ELSE {<< >>}
    /\ media_dir_exists \in BOOLEAN
    /\ out_in_media_dir \in IF media_dir_exists THEN BOOLEAN ELSE {FALSE}
    /\ \E dir \in {IF out_in_media_dir THEN << >> ELSE MediaDir} :
          /\ media_files = IF media_dir_exists THEN RunFiles(dir) ELSE << >>
          /\ sidecars \in IF media_dir_exists THEN SidecarChoices(dir) ELSE {<< >>}
    /\ transcribe \in BOOLEAN
    /\ transcribe_limit \in IF transcribe THEN LimitChoices ELSE {None}
    /\ me_name = Some(Ana)
    /\ t_msg = 0
    /\ t_key = 0
    /\ count = 0
    /\ transcribed = 0
    /\ t_log = << >>
    /\ output_file = None
    /\ writes = 0
    /\ messages = << >>
    /\ media_index = << >>
    /\ transcriptions = << >>
    /\ pos = 0 /\ current = 0
    /\ sc_pos = 0 /\ first = None /\ second = None
    /\ sender_classes = << >> /\ sc_pc = "idle"
    /\ msg = Message(<< >>, << >>, << >>, << >>)
    /\ occurrences = << >> /\ r_key = 0 /\ r_occ = 0 /\ parts = << >> /\ cur = 0
    /\ r_pc = "idle" /\ html = None
    /\ AssemblerIdle

runInputs ==
    <<chat_exists, media_dir_exists, out_in_media_dir, media_files, transcribe,
      transcribe_limit, chat_lines, me_name>>

runOthers ==
    <<pos, current, sc_pos, first, second, sender_classes, sc_pc, rendererLocals,
      runInputs>>

runRest == <<runOthers, assemblerVars>>

transcribeVars == <<t_msg, t_key, count, transcribed, t_log, sidecars>>

\* "if not os.path.isfile(args.chat_txt): ... return"
ChatMissing ==
    /\ pc = "start"
    /\ ~chat_exists
    /\ pc' = "exit"
    /\ UNCHANGED <<messages, media_index, transcriptions, output_file, writes,
                   transcribeVars, runRest>>

\* messages = parse_chat(args.chat_txt)
ReadChat ==
    /\ pc = "start"
    /\ chat_exists
    /\ messages' = parse_chat(chat_lines)
    /\ pc' = "index"
    /\ UNCHANGED <<media_index, transcriptions, output_file, writes,
                   transcribeVars, runRest>>

AfterIndex == IF transcribe THEN "transcribe" ELSE "load"

\* "if os.path.isdir(args.media_dir)": media_index = build_media_index(...)
BuildMediaIndex ==
    /\ pc = "index"
    /\ media_dir_exists
    /\ media_index' = build_media_index(media_files)
    /\ pc' = AfterIndex
    /\ UNCHANGED <<messages, transcriptions, output_file, writes,
                   transcribeVars, runRest>>

\* a missing media directory ends the run
MediaDirMissing_Aborts ==
    /\ pc = "index"
    /\ ~media_dir_exists
    /\ pc' = "exit"
    /\ UNCHANGED <<messages, media_index, transcriptions, output_file, writes,
                   transcribeVars, runRest>>

\* "else": media_index = {}
MediaDirMissing ==
    /\ pc = "index"
    /\ ~media_dir_exists
    /\ media_index' = << >>
    /\ pc' = AfterIndex
    /\ UNCHANGED <<messages, transcriptions, output_file, writes,
                   transcribeVars, runRest>>

\* "limit is not None and count >= limit"
LimitReached == transcribe_limit # None /\ count >= transcribe_limit[1]

\* "limit is not None and count > limit", for the count just incremented
LimitExceeded(c) == transcribe_limit # None /\ c > transcribe_limit[1]

\* the conditions of the inner loop above "count += 1". The loop resolves
\* rel_path, which is relative to the directory of the output file, against
\* media_dir: the path names the indexed file when the two directories are
\* one, and no file otherwise
IsCounted(message, item, same_dir) ==
    /\ Find(Lower(message.text), item.key, 0) >= 0
    /\ Extension(item.key) \in AUDIO_EXTS
    /\ same_dir

LogEntry(did) == [msg |-> t_msg + 1, key |-> media_index[t_key + 1].key, did |-> did]

\* txt_path = full_path + ".original.txt"
TxtPath == media_index[t_key + 1].value \o OriginalSuffix

transcribeFrame == <<messages, media_index, transcriptions, output_file, writes, runRest>>

\* the outer loop breaks at its head
TranscribeBreak ==
    /\ pc = "transcribe"
    /\ t_msg < Len(messages)
    /\ LimitReached
    /\ pc' = "load"
    /\ UNCHANGED <<transcribeVars, transcribeFrame>>

\* the outer loop has run over all messages
TranscribeEnd ==
    /\ pc = "transcribe"
    /\ t_msg = Len(messages)
    /\ pc' = "load"
    /\ UNCHANGED <<transcribeVars, transcribeFrame>>

\* the outer loop enters its body for the next message
TranscribeMessage ==
    /\ pc = "transcribe"
    /\ t_msg < Len(messages)
    /\ ~LimitReached
    /\ pc' = "keys"
    /\ t_key' = 0
    /\ UNCHANGED <<t_msg, count, transcribed, t_log, sidecars, transcribeFrame>>

\* the inner loop has run over all items of the index
MessageDone ==
    /\ pc = "keys"
    /\ t_key = Len(media_index)
    /\ pc' = "transcribe"
    /\ t_msg' = t_msg + 1
    /\ t_key' = 0
    /\ UNCHANGED <<count, transcribed, t_log, sidecars, transcribeFrame>>

\* one of the three "continue" above "count += 1"
KeySkipped ==
    /\ pc = "keys"
    /\ t_key < Len(media_index)
    /\ ~IsCounted(messages[t_msg + 1], media_index[t_key + 1], out_in_media_dir)
    /\ t_key' = t_key + 1
    /\ UNCHANGED <<pc, t_msg, count, transcribed, t_log, sidecars, transcribeFrame>>

\* "count += 1", then "if limit is not None and count > limit: break"
KeyOverLimit ==
    /\ pc = "keys"
    /\ t_key < Len(media_index)
    /\ IsCounted(messages[t_msg + 1], media_index[t_key + 1], out_in_media_dir)
    /\ LimitExceeded(count + 1)
    /\ count' = count + 1
    /\ t_log' = Append(t_log, LogEntry("over"))
    /\ pc' = "transcribe"
    /\ t_msg' = t_msg + 1
    /\ t_key' = 0
    /\ UNCHANGED <<transcribed, sidecars, transcribeFrame>>

\* "count += 1", then "if os.path.exists(txt_path): continue"
KeyCached ==
    /\ pc = "keys"
    /\ t_key < Len(media_index)
    /\ IsCounted(messages[t_msg + 1], media_index[t_key + 1], out_in_media_dir)
    /\ ~LimitExceeded(count + 1)
    /\ isfile(sidecars, TxtPath)
    /\ count' = count + 1
    /\ t_log' = Append(t_log, LogEntry("cached"))
    /\ t_key' = t_key + 1
    /\ UNCHANGED <<pc, t_msg, transcribed, sidecars, transcribeFrame>>

\* "count += 1", then the try block runs to its end
KeyTranscribed ==
    /\ pc = "keys"
    /\ t_key < Len(media_index)
    /\ IsCounted(messages[t_msg + 1], media_index[t_key + 1], out_in_media_dir)
    /\ ~LimitExceeded(count + 1)
    /\ ~isfile(sidecars, TxtPath)
    /\ \E raw \in STTResults : sidecars' = WriteFile(sidecars, TxtPath, raw)
    /\ count' = count + 1
    /\ transcribed' = transcribed + 1
    /\ t_log' = Append(t_log, LogEntry("ok"))
    /\ t_key' = t_key + 1
    /\ UNCHANGED <<pc, t_msg, transcribeFrame>>

\* a failed call that is not caught: the run ends
KeyFailed_Aborts ==
    /\ pc = "keys"
    /\ t_key < Len(media_index)
    /\ IsCounted(messages[t_msg + 1], media_index[t_key + 1], out_in_media_dir)
    /\ ~LimitExceeded(count + 1)
    /\ ~isfile(sidecars, TxtPath)
    /\ count' = count + 1
    /\ t_log' = Append(t_log, LogEntry("failed"))
    /\ pc' = "exit"
    /\ UNCHANGED <<t_msg, t_key, transcribed, sidecars, transcribeFrame>>

\* "count += 1", then transcribe raises and "except Exception" prints
KeyFailed ==
    /\ pc = "keys"
    /\ t_key < Len(media_index)
    /\ IsCounted(messages[t_msg + 1], media_index[t_key + 1], out_in_media_dir)
    /\ ~LimitExceeded(count + 1)
    /\ ~isfile(sidecars, TxtPath)
    /\ count' = count + 1
    /\ t_log' = Append(t_log, LogEntry("failed"))
    /\ t_key' = t_key + 1
    /\ UNCHANGED <<pc, t_msg, transcribed, sidecars, transcribeFrame>>

\* transcriptions = load_transcriptions(...)
LoadTranscriptions ==
    /\ pc = "load"
    /\ transcriptions' = load_transcriptions(media_index, sidecars)
    /\ pc' = "generate"
    /\ UNCHANGED <<messages, media_index, output_file, writes, transcribeVars, runRest>>

\* "with open(output_path, "w") as f: f.write(html)", and its record in the
\* history of written pages
WritePage(page) ==
    /\ output_file' = Some(page)
    /\ writes' = writes + 1
    /\ pages' = Append(pages, page)
    /\ rendered_at' = Append(rendered_at, now)

\* generate_html(...): the one write of the output file
GenerateHtml ==
    /\ pc = "generate"
    /\ WritePage(generate_html(messages, media_index, me_name, transcriptions, now))
    /\ pc' = "done"
    /\ UNCHANGED <<messages, media_index, transcriptions, transcribeVars, runOthers, now>>

RunNext ==
    \/ ChatMissing
    \/ ReadChat
    \/ BuildMediaIndex
    \/ MediaDirMissing
    \/ TranscribeBreak
    \/ TranscribeEnd
    \/ TranscribeMessage
    \/ MessageDone
    \/ KeySkipped
    \/ KeyOverLimit
    \/ KeyCached
    \/ KeyTranscribed
    \/ KeyFailed
    \/ LoadTranscriptions
    \/ GenerateHtml

SpecRun == RunInit /\ [][RunNext]_vars

-----------------------------------------------------------------------------
(* generate_html called again and again on the same inputs while the clock *)
(* runs.                                                                   *)

MaxClock == 2
MaxPages == 2

AssemblerConversations ==
    {<<Message(Date, Time, Ana, text)>> : text \in TextChoices}
    \cup {<<Message(Date, Time, << >>, << >>),
            Message(Date, Time, Bob, <<"v", ".", "o", "p", "u", "s", "\n", "V", ".", "O", "P", "U", "S">>),
            Message(Date, Time, Ana, <<"a", ".", "j", "p", "g", " ", "(", "f", "i", "l", "e", " ", "a", "t", "t", "a", "c", "h", "e", "d", ")">>)>>}

AssemblerInit ==
    /\ messages \in AssemblerConversations
    /\ \E files \in FileLists : media_index = build_media_index(files)
    /\ transcriptions \in TranscriptionChoices
    /\ me_name \in {None, Some(Ana)}
    /\ now = 0
    /\ pages = << >>
    /\ rendered_at = << >>
    /\ chat_lines = << >> /\ pos = 0 /\ current = 0
    /\ sc_pos = 0 /\ first = None /\ second = None
    /\ sender_classes = << >> /\ sc_pc = "idle"
    /\ msg = Message(<< >>, << >>, << >>, << >>)
    /\ occurrences = << >> /\ r_key = 0 /\ r_occ = 0 /\ parts = << >> /\ cur = 0
    /\ r_pc = "idle" /\ html = None
    /\ RunIdle

assemblerFrame ==
    <<messages, media_index, transcriptions, pc, sidecars, t_msg, t_key, count, transcribed, t_log, runOthers>>

\* the wall clock advances
Tick ==
    /\ now < MaxClock
    /\ now' = now + 1
    /\ UNCHANGED <<pages, rendered_at, output_file, writes, assemblerFrame>>

\* one call of generate_html
GeneratePage ==
    /\ Len(pages) < MaxPages
    /\ WritePage(generate_html(messages, media_index, me_name, transcriptions, now))
    /\ UNCHANGED <<now, assemblerFrame>>

AssemblerNext == Tick \/ GeneratePage

SpecAssembler == AssemblerInit /\ [][AssemblerNext]_vars

-----------------------------------------------------------------------------
(* Properties of generate_html.                                            *)

-----------------------------------------------------------------------------
(* Properties of main and transcribe_audios.                               *)

TextOnly(page) ==
    \A i \in 1..Len(page.body) :
        \A k \in 1..Len(page.body[i].content) : page.body[i].content[k].kind = "span"

\* C8: a run of main without the transcription and correction options: if
\* the transcript file is absent the run ends before any parsing, indexing
\* or rendering step and writes no output file; if it exists the run never
\* ends without the output file, which is written exactly once, as the last
\* step; an absent media directory only makes the media index empty and the
\* rendering text-only.
C8_RunOutcome ==
    ~transcribe =>
        /\ ~chat_exists =>
              /\ pc \in {"start", "exit"}
              /\ messages = << >> /\ media_index = << >> /\ transcriptions = << >>
              /\ output_file = None /\ writes = 0
        /\ chat_exists =>
              /\ pc # "exit"
              /\ writes = IF pc = "done" THEN 1 ELSE 0
              /\ output_file # None <=> pc = "done"
              /\ ~media_dir_exists /\ pc \in {"load", "generate", "done"} =>
                    media_index = << >>
              /\ ~media_dir_exists /\ pc = "done" =>
                    /\ Len(output_file[1].body) = Len(messages)
                    /\ TextOnly(output_file[1])

C8_Witness ==
    /\ ~transcribe /\ chat_exists /\ ~media_dir_exists
    /\ pc = "done"
    /\ writes = 1
    /\ Len(messages) = 2
    /\ Len(output_file[1].body) = 2

\* the pairs of a message and an index key such that the key is an audio
\* file name that occurs in the text of the message
Mentions ==
    {a \in (1..Len(messages)) \X (1..Len(media_index)) :
        /\ Find(Lower(messages[a[1]].text), media_index[a[2]].key, 0) >= 0
        /\ Extension(media_index[a[2]].key) \in AUDIO_EXTS}

Before(a, b) == a[1] < b[1] \/ (a[1] = b[1] /\ a[2] < b[2])

\* the audio occurrences in conversation order
AudioOccurrences ==
    [n \in 1..Cardinality(Mentions) |->
        The({[msg |-> b[1], key |-> media_index[b[2]].key]
             : b \in {a \in Mentions : Cardinality({c \in Mentions : Before(c, a)}) = n - 1}})]

Prefix(seq, n) == SubSeq(seq, 1, IF n < Len(seq) THEN n ELSE Len(seq))

Range(seq) == {seq[n] : n \in 1..Len(seq)}

Occurrence(e) == [msg |-> e.msg, key |-> e.key]

IsCall(e) == e.did \in {"ok", "failed"}

Calls == SelectSeq(t_log, IsCall)

IsProcessed(e) == e.did # "over"

Processed == [n \in 1..Len(SelectSeq(t_log, IsProcessed)) |->
                 Occurrence(SelectSeq(t_log, IsProcessed)[n])]

Considered == [n \in 1..Len(t_log) |-> Occurrence(t_log[n])]

InLoop == transcribe /\ pc \in {"transcribe", "keys"}

LoopLeft == transcribe /\ chat_exists /\ pc \in {"load", "generate", "done", "exit"}

\* C9 as stated: with a limit N at most N speech-to-text calls are made,
\* only for audios among the first N audio occurrences in conversation
\* order, and the count of audios considered never exceeds N; with no limit
\* every audio occurrence is considered.
C9_LimitRespected ==
    /\ InLoop \/ LoopLeft =>
          /\ count = Len(t_log)
          /\ transcribe_limit # None =>
                /\ Len(Calls) <= transcribe_limit[1]
                /\ \A n \in 1..Len(Calls) :
                      Occurrence(Calls[n]) \in Range(Prefix(AudioOccurrences, transcribe_limit[1]))
                /\ count <= transcribe_limit[1]
    /\ LoopLeft /\ transcribe_limit = None => Considered = AudioOccurrences

WithinLimit(occs) ==
    IF transcribe_limit = None THEN occs ELSE Prefix(occs, transcribe_limit[1])

HasFailure == \E n \in 1..Len(t_log) : t_log[n].did = "failed"

Logged(did) == Len(t_log') = Len(t_log) + 1 /\ t_log'[Len(t_log')].did \in did

LoggedPath == IndexGet(media_index, t_log'[Len(t_log')].key) \o OriginalSuffix

\* C10: when the speech-to-text call fails for an audio, no raw sidecar is
\* written for it, the loop goes on, and once the loop is left every audio
\* occurrence within the limit has been processed; a call is made only for
\* an audio without raw sidecar, and no existing sidecar is ever changed.
C10_FailureIsolated ==
    /\ [](LoopLeft /\ HasFailure =>
             pc # "exit" /\ Processed = WithinLimit(AudioOccurrences))
    /\ [][/\ Logged({"failed"}) => sidecars' = sidecars /\ pc' = "keys"
          /\ Logged({"ok", "failed"}) => ~isfile(sidecars, LoggedPath)
          /\ \A path \in DOMAIN sidecars :
                isfile(sidecars', path) /\ sidecars'[path] = sidecars[path]]_vars

C10_Witness ==
    /\ pc = "done"
    /\ writes = 1
    /\ Len(t_log) = 4
    /\ t_log[1].did = "cached"
    /\ t_log[2].did = "failed"
    /\ t_log[4].did = "ok"
    /\ t_log[2].key = t_log[4].key

-----------------------------------------------------------------------------
(* Properties of load_transcriptions and of the captions in the page.      *)

\* the content of the sidecar to use for an item: the corrected file if it
\* exists, else the raw file if it exists, else None
SidecarOf(item) ==
    IF isfile(sidecars, item.value \o CorrectedSuffix)
    THEN Some(sidecars[item.value \o CorrectedSuffix])
    ELSE IF isfile(sidecars, item.value \o OriginalSuffix)
    THEN Some(sidecars[item.value \o OriginalSuffix])
    ELSE None

Loaded == pc \in {"generate", "done"}

\* the transcription map has, for each audio key with a sidecar, the
\* content of that sidecar (stripped or as it is), and no other entry
LoadedAs(stripped) ==
    /\ \A n \in 1..Len(media_index) :
          \E item \in {media_index[n]} :
             IF Extension(item.key) \in AUDIO_EXTS /\ SidecarOf(item) # None
             THEN /\ HasKey(transcriptions, item.key)
                  /\ IndexGet(transcriptions, item.key) =
                        IF stripped THEN Strip(SidecarOf(item)[1]) ELSE SidecarOf(item)[1]
             ELSE ~HasKey(transcriptions, item.key)
    /\ \A n \in 1..Len(transcriptions) : HasKey(media_index, transcriptions[n].key)

\* every audio part of the written page has a caption exactly when the key
\* of its file has an entry, and the caption is that entry, escaped
CaptionsFollowEntries ==
    pc = "done" =>
        \A i \in 1..Len(output_file[1].body) :
            \A k \in 1..Len(output_file[1].body[i].content) :
                \E part \in {output_file[1].body[i].content[k]} :
                    part.kind = "audio" =>
                        \A n \in 1..Len(media_index) :
                            escape(media_index[n].value) = part.src =>
                                part.caption =
                                    IF HasKey(transcriptions, media_index[n].key)
                                    THEN Some(escape(IndexGet(transcriptions, media_index[n].key)))
                                    ELSE None

\* C11 as stated: for every audio key the transcription entry is the
\* content of the corrected sidecar when that exists, else the content of
\* the raw sidecar when that exists, else the key has no entry; non-audio
\* keys have no entry; an audio occurrence has a caption exactly when its
\* key has an entry.
C11_SidecarContent ==
    Loaded => LoadedAs(FALSE) /\ CaptionsFollowEntries

\* C11 amended: the same, the entry being the content of the chosen sidecar
\* without its leading and trailing whitespace.
C11_StrippedSidecarContent ==
    Loaded => LoadedAs(TRUE) /\ CaptionsFollowEntries

HasAudioPart(captioned) ==
    \E i \in 1..Len(output_file[1].body) :
        \E k \in 1..Len(output_file[1].body[i].content) :
            /\ output_file[1].body[i].content[k].kind = "audio"
            /\ (output_file[1].body[i].content[k].caption # None) = captioned

C11_Witness ==
    /\ pc = "done"
    /\ ~transcribe
    /\ \E n \in 1..Len(media_index) :
          /\ media_index[n].key = AudioV
          /\ isfile(sidecars, media_index[n].value \o CorrectedSuffix)
          /\ isfile(sidecars, media_index[n].value \o OriginalSuffix)
    /\ HasKey(transcriptions, AudioV)
    /\ IndexGet(transcriptions, AudioV) = Strip(FixedText)
    /\ IndexGet(transcriptions, AudioV) # FixedText
    /\ ~HasKey(transcriptions, AudioW)
    /\ HasAudioPart(TRUE)
    /\ HasAudioPart(FALSE)

-----------------------------------------------------------------------------
(* The text ranges of the segments render_message_html emits, checked      *)
(* under SpecRenderer.                                                     *)

\* the occurrences the for loop has emitted a media block for
Emitted == IF r_pc \in {"emit", "wrap", "returned"} THEN r_occ ELSE 0

\* C12: for any message text and any media index, also one in which a key
\* is a substring of another key, the text ranges of the emitted media
\* segments are pairwise disjoint and strictly increasing, and the cursor,
\* which is the end of the last emitted range, never moves backwards: each
\* later range starts at or after the end of every earlier one.
C12_DisjointSegments ==
    /\ \A i, j \in 1..Emitted :
          i < j => occurrences[i].end <= occurrences[j].start
    /\ \A i \in 1..Emitted : occurrences[i].end <= cur

-----------------------------------------------------------------------------
(* The frame of a step of parse_chat, checked under SpecParser.            *)

IsPrefix(a, b) == Len(a) <= Len(b) /\ SubSeq(b, 1, Len(a)) = a

\* what one line may do to the records: none is removed or moved, the ones
\* before the last are left as they are, and the last one keeps its date,
\* time and sender and has its text left alone or extended; it is left as
\* it is when a record is appended
StepKeepsRecords ==
    /\ Len(messages') \in {Len(messages), Len(messages) + 1}
    /\ \A i \in 1..(Len(messages) - 1) : messages'[i] = messages[i]
    /\ Len(messages) >= 1 =>
          \E old \in {messages[Len(messages)]}, new \in {messages'[Len(messages)]} :
             /\ new.date = old.date /\ new.time = old.time /\ new.sender = old.sender
             /\ IsPrefix(old.text, new.text)
             /\ Len(messages') > Len(messages) => new = old

\* C13: after every line the records are those before it, in the same
\* order, with at most one more; every record has a text; only the last
\* record changes, and only by its text; the records before the last, closed
\* by the line that opened the next one, are never modified again.
C13_AppendOnly ==
    /\ [](\A i \in 1..Len(messages) : messages[i].text \in Seq(STRING))
    /\ [][StepKeepsRecords]_vars

\* two header lines and a continuation line: the first record is as its
\* header left it, the second has the third line folded in
C13_Witness ==
    /\ pos = 3
    /\ ConsumedHeader(1) /\ ConsumedHeader(2) /\ ~ConsumedHeader(3)
    /\ Len(messages) = 2
    /\ messages[1].text = FirstText(Line(1))
    /\ messages[2].text = Folded(2, 3)
    /\ messages[2].text # FirstText(Line(2))

-----------------------------------------------------------------------------
(* The content of the sender map and the defaults of render_message_html,  *)
(* checked under SpecClassifier.                                           *)

\* the block render_message_html returns for message i, without its content
RenderedBlock(i) == Block(messages[i], sender_classes, << >>)

\* C14: in both modes, at every point of the scan, the sender map holds
\* neither the empty sender nor a sender that no scanned message has (so
\* me_name is in it only if some message has that sender); every message
\* renders in lane "sent" or "received", a message with an empty or
\* unmapped sender in lane "received", and an empty sender is shown as
\* "System".
C14_MapAndDefaults ==
    /\ << >> \notin DOMAIN sender_classes
    /\ \A s \in DOMAIN sender_classes :
          /\ \E i \in 1..sc_pos : Sender(i) = s
          /\ sender_classes[s] \in {"sent", "received"}
    /\ \A i \in 1..Len(messages) :
          \E block \in {RenderedBlock(i)} :
             /\ block.class \in {"sent", "received"}
             /\ block.class = RenderedLane(i)
             /\ Sender(i) \notin DOMAIN sender_classes => block.class = "received"
             /\ Sender(i) = << >> => block.class = "received" /\ block.sender = System
             /\ Sender(i) # << >> => block.sender = escape(Sender(i))

\* explicit mode has returned on a conversation with a system notice and
\* another sender, where no message has the designated name: the name is
\* not in the map and the notice renders as "System" in lane "received"
C14_Witness ==
    /\ sc_pc = "returned"
    /\ Truthy(me_name)
    /\ me_name[1] \notin DOMAIN sender_classes
    /\ DOMAIN sender_classes # {}
    /\ \E i \in 1..Len(messages) :
          /\ Sender(i) = << >>
          /\ RenderedBlock(i).sender = System
          /\ RenderedBlock(i).class = "received"

====
